---------------------------- MODULE Spec2Model ----------------------------
(***************************************************************************)
(* A model of the benchmark and differential-verification scripts of the   *)
(* code-complexity-optimizer skill and of the scanner of the               *)
(* code-review-guardian skill:                                             *)
(*   scripts/benchmark.py        BenchmarkResult, benchmark_function,      *)
(*                               compare_results, parse_arg, main          *)
(*   templates/verification.py   verify_optimization,                      *)
(*                               benchmark_comparison                      *)
(*   scripts/auto-scan.py        scan_file, scan_directory, main           *)
(*                                                                         *)
(* Durations are whole microseconds; a mean, a median or a percentage is   *)
(* the exact rational the float computation approximates, kept as a        *)
(* numerator and a denominator.  A call of a callable under test has one   *)
(* of three outcomes: it returns ("ok"), it raises an error derived from   *)
(* Exception ("err"), or it raises a BaseException that is not an          *)
(* Exception, such as KeyboardInterrupt or SystemExit ("fatal"); the       *)
(* code's handlers are all `except Exception`.                             *)
(***************************************************************************)
EXTENDS Integers, Sequences, FiniteSets, TLC

\* ------------------------------------------------------------------ bounds
MaxRuns == 3
MaxWarmup == 2
MaxMem == 1
MaxCases == 2
MaxSamples == 2

\* Durations a measured call may take (microseconds).
Durations == {0, 10000, 20002}

\* The samples of the results given to compare_results; 20001 against 20002
\* is an improvement below 0.005 percent.
ResultDurations == Durations \cup {20001}

\* Sizes tracemalloc may report (bytes).
MemLevels == {k * 1024 : k \in 0..MaxMem}

Outcomes == {"ok", "err", "fatal"}

\* ----------------------------------------------------------------- helpers
Max2(a, b) == IF a >= b THEN a ELSE b

RECURSIVE SumSeq(_)
SumSeq(s) == IF s = <<>> THEN 0 ELSE Head(s) + SumSeq(Tail(s))

\* The sum of (x - y)^2 over the elements y of s.
RECURSIVE SqDiffs(_, _)
SqDiffs(x, s) == IF s = <<>> THEN 0
                 ELSE (x - Head(s)) * (x - Head(s)) + SqDiffs(x, Tail(s))

\* The sum of (s[j] - s[k])^2 over j < k, which is n times the sum of the
\* squared deviations from the mean.
RECURSIVE PairSq(_)
PairSq(s) == IF s = <<>> THEN 0
             ELSE SqDiffs(Head(s), Tail(s)) + PairSq(Tail(s))

RECURSIVE MinSeq(_)
MinSeq(s) == IF Len(s) = 1 THEN Head(s)
             ELSE LET m == MinSeq(Tail(s)) IN IF Head(s) <= m THEN Head(s) ELSE m

RECURSIVE MaxSeq(_)
MaxSeq(s) == IF Len(s) = 1 THEN Head(s)
             ELSE LET m == MaxSeq(Tail(s)) IN IF Head(s) >= m THEN Head(s) ELSE m

\* s with x inserted before the first element greater than x.
RECURSIVE Insert(_, _)
Insert(x, s) == IF s = <<>> THEN <<x>>
                ELSE IF x <= Head(s) THEN <<x>> \o s
                ELSE <<Head(s)>> \o Insert(x, Tail(s))

RECURSIVE Sorted(_)
Sorted(s) == IF s = <<>> THEN <<>> ELSE Insert(Head(s), Sorted(Tail(s)))

\* ------------------------------------------------- BenchmarkResult (stats)
Value(n, d) == [kind |-> "value", num |-> n, den |-> d]
Raised(e) == [kind |-> e, num |-> 0, den |-> 1]

\* statistics.mean: StatisticsError on no data.
avg_time(ts) == IF ts = <<>> THEN Raised("StatisticsError")
                ELSE Value(SumSeq(ts), Len(ts))

\* statistics.median: the middle of the sorted data, the mean of the two
\* middle values for an even count, StatisticsError on no data.
median_time(ts) ==
    IF ts = <<>> THEN Raised("StatisticsError")
    ELSE LET s == Sorted(ts)
             n == Len(ts)
         IN IF n % 2 = 1 THEN Value(s[(n \div 2) + 1], 1)
            ELSE Value(s[n \div 2] + s[(n \div 2) + 1], 2)

\* Mutant: min_time is a copy of max_time.
min_time_CopyOfMax(ts) ==
    IF ts = <<>> THEN Raised("ValueError") ELSE Value(MaxSeq(ts), 1)

\* min() and max() of an empty list raise ValueError.
min_time(ts) == IF ts = <<>> THEN Raised("ValueError") ELSE Value(MinSeq(ts), 1)

max_time(ts) == IF ts = <<>> THEN Raised("ValueError") ELSE Value(MaxSeq(ts), 1)

\* stdev(times) if len(times) > 1 else 0.  The value kept is the variance
\* (sum of squared deviations over n - 1) whose square root stdev returns.
std_dev(ts) ==
    IF Len(ts) > 1
    THEN Value(PairSq(ts), Len(ts) * (Len(ts) - 1))
    ELSE Value(0, 1)

StatNames == {"avg_time", "median_time", "min_time", "max_time", "std_dev"}

StatOf(p, ts) ==
    CASE p = "avg_time" -> avg_time(ts)
      [] p = "median_time" -> median_time(ts)
      [] p = "min_time" -> min_time(ts)
      [] p = "max_time" -> max_time(ts)
      [] p = "std_dev" -> std_dev(ts)

BenchmarkResult(r, ts, peak, cur) ==
    [runs |-> r, times |-> ts, memory_peak |-> peak, memory_current |-> cur]


\* ------------------------------------------------------------------- state
VARIABLES
    \* benchmark_function: its parameters, locals and place in the body
    pc, runs, warmup, measure_memory, w, i, times, memory_peak, memory_current,
    \* tracemalloc: whether tracing is on, and its (current, peak) counters
    tracing, tracer_current, tracer_peak,
    \* the outcome of each warmup call and of each measured call so far, in
    \* order; the returned BenchmarkResult (<<>>: none)
    warmed, measured, result,
    \* the last statistic requested of the result, and what the request gave
    stat_req, stat_out,
    \* the callable benchmark_function profiles; the tracer peaks it read
    \* after the measured calls that returned, in order; the events so far,
    \* in order: calls of callables, tracemalloc.start() and stop()
    func, peaks, trace,
    \* verify_optimization: what original and optimized do on each case of
    \* test_cases, verbose, the cases done, all_passed, the invocations made
    \* (callable, case), each done case's match flag, the lines printed, its
    \* place in the body and the value returned (<<>>: none)
    vpc, original, optimized, verbose, vi, all_passed, invoked, matched,
    printed, vresult,
    \* compare_results: its two arguments and what the call gave
    cpc, before, after, comparison,
    \* the command line's argument tokens (args.args), the values parse_arg
    \* gave for the tokens parsed so far (parsed_args) and the place in
    \* that list comprehension
    ppc, tokens, parsed_args,
    \* benchmark.py main: its place in the body, the parsed options, which
    \* of the two target files yield the function, the first pass's result
    \* while the second runs (<<>>: none), what made main raise
    mpc, args, loadable, first, merror,
    \* benchmark_comparison: its place in the body, runs, the loop counter,
    \* the calls made so far (callable, phase), the two elapsed times and
    \* what the call gave
    tpc, truns, tk, calls, original_time, optimized_time, tresult,
    \* auto-scan.py: the place in main, the paths rglob yields, the index of
    \* the next one, scan_directory's results and the process exit status
    spc, directory, si, results, scan_format, exit_status

benchVars == <<pc, runs, warmup, measure_memory, w, i, times, memory_peak,
               memory_current, tracing, tracer_current, tracer_peak,
               warmed, measured, result, stat_req, stat_out, func, peaks,
               trace>>

verifyVars == <<vpc, original, optimized, verbose, vi, all_passed, invoked,
                matched, printed, vresult>>

compareVars == <<cpc, before, after, comparison>>

parseVars == <<ppc, tokens, parsed_args>>

mainVars == <<mpc, args, loadable, first, merror>>

tmplVars == <<tpc, truns, tk, calls, original_time, optimized_time, tresult>>

scanVars == <<spc, directory, si, results, scan_format, exit_status>>

vars == <<benchVars, verifyVars, compareVars, parseVars, mainVars, tmplVars,
          scanVars>>

\* ------------------------------------------------------ benchmark_function
\* An event of a run: what happened (e) and to which callable or report (f).
Event(e, f) == [e |-> e, f |-> f]

\* Entry of benchmark_function: times = [], memory_peak = memory_current = 0.
BenchInit ==
    /\ pc = "warmup"
    /\ runs \in 0..MaxRuns
    /\ warmup \in 0..MaxWarmup
    /\ measure_memory \in BOOLEAN
    /\ w = 0
    /\ i = 0
    /\ times = <<>>
    /\ memory_peak = 0
    /\ memory_current = 0
    /\ tracing = FALSE
    /\ tracer_current = 0
    /\ tracer_peak = 0
    /\ warmed = <<>>
    /\ measured = <<>>
    /\ result = <<>>
    /\ stat_req = "none"
    /\ stat_out = Value(0, 1)
    /\ func = "func"
    /\ peaks = <<>>
    /\ trace = <<>>

\* Mutant: the handler leaves the loop (`break`) instead of going on.
AfterError_Break(k, n) == n

\* `continue` in the measured loop's handler: on to the next iteration.
AfterError(k, n) == k + 1

\* Mutant: the result reports the requested run count.
ResultRuns_Requested(ts, requested) == requested

\* runs=len(times) in the returned BenchmarkResult.
ResultRuns(ts, requested) == Len(ts)

\* Mutant: the warmup loop has no handler.
WarmupSwallows_Nothing(o) == o = "ok"

\* `except Exception: pass` around the warmup call: the call returned, or
\* what it raised is an Exception.
WarmupSwallows(o) == o # "fatal"

\* Mutant: the tracer is not read again after the loop.
FinalPeak_NotRead(peak, peak_final) == peak

\* memory_peak = max(memory_peak, memory_peak_final) after the loop.
FinalPeak(peak, peak_final) == Max2(peak, peak_final)

\* What a call of the callable does to tracemalloc's counters while tracing
\* is on: any current size, and a peak that never falls within the scope.
TracerAfterCall ==
    IF tracing
    THEN /\ tracer_current' \in MemLevels
         /\ tracer_peak' \in MemLevels
         /\ tracer_peak' >= tracer_peak
         /\ tracer_peak' >= tracer_current'
    ELSE UNCHANGED <<tracer_current, tracer_peak>>

\* One pass of the warmup loop: the call's Exception is swallowed, any other
\* BaseException leaves benchmark_function.
WarmupCall ==
    /\ pc = "warmup"
    /\ w < warmup
    /\ \E o \in Outcomes :
         /\ warmed' = Append(warmed, o)
         /\ IF WarmupSwallows(o)
            THEN pc' = pc /\ w' = w + 1
            ELSE pc' = "raised" /\ w' = w
    /\ trace' = Append(trace, Event("warmup", func))
    /\ UNCHANGED <<runs, warmup, measure_memory, i, times, memory_peak,
                   memory_current, tracing, tracer_current, tracer_peak,
                   measured, result, stat_req, stat_out, func, peaks>>
    /\ UNCHANGED <<verifyVars, compareVars, parseVars, mainVars, tmplVars,
                   scanVars>>

\* The warmup loop is over: tracemalloc.start() if measure_memory, gc.collect().
StartMeasure ==
    /\ pc = "warmup"
    /\ w = warmup
    /\ pc' = "measure"
    /\ IF measure_memory
       THEN /\ tracing' = TRUE /\ tracer_current' = 0 /\ tracer_peak' = 0
            /\ trace' = Append(trace, Event("start", func))
       ELSE UNCHANGED <<tracing, tracer_current, tracer_peak, trace>>
    /\ UNCHANGED <<runs, warmup, measure_memory, w, i, times, memory_peak,
                   memory_current, warmed, measured, result, stat_req,
                   stat_out, func, peaks>>
    /\ UNCHANGED <<verifyVars, compareVars, parseVars, mainVars, tmplVars,
                   scanVars>>

\* One pass of the measured loop.  A call that returns appends its duration
\* and, with measure_memory, folds the tracer's peak into memory_peak; one
\* that raises an Exception is reported and skipped (continue); any other
\* BaseException leaves benchmark_function, the tracer still on.
MeasuredCall ==
    /\ pc = "measure"
    /\ i < runs
    /\ TracerAfterCall
    /\ \E o \in Outcomes :
         CASE o = "ok" ->
                \E d \in Durations :
                  /\ measured' = Append(measured, [o |-> o, d |-> d])
                  /\ times' = Append(times, d)
                  /\ memory_peak' = IF measure_memory
                                    THEN Max2(memory_peak, tracer_peak')
                                    ELSE memory_peak
                  /\ peaks' = IF measure_memory
                              THEN Append(peaks, tracer_peak')
                              ELSE peaks
                  /\ i' = i + 1
                  /\ pc' = pc
           [] o = "err" ->
                /\ measured' = Append(measured, [o |-> o, d |-> 0])
                /\ i' = AfterError(i, runs)
                /\ pc' = pc
                /\ UNCHANGED <<times, memory_peak, peaks>>
           [] o = "fatal" ->
                /\ measured' = Append(measured, [o |-> o, d |-> 0])
                /\ pc' = "raised"
                /\ UNCHANGED <<i, times, memory_peak, peaks>>
    /\ trace' = Append(trace, Event("measure", func))
    /\ UNCHANGED <<runs, warmup, measure_memory, w, memory_current, tracing,
                   warmed, result, stat_req, stat_out, func>>
    /\ UNCHANGED <<verifyVars, compareVars, parseVars, mainVars, tmplVars,
                   scanVars>>

\* The measured loop is over: with measure_memory read the tracer a last
\* time and stop it; return BenchmarkResult(runs=len(times), ...).
BenchReturn ==
    /\ pc = "measure"
    /\ i = runs
    /\ pc' = "done"
    /\ IF measure_memory
       THEN /\ memory_current' = tracer_current
            /\ memory_peak' = FinalPeak(memory_peak, tracer_peak)
            /\ tracing' = FALSE
            /\ trace' = Append(trace, Event("stop", func))
       ELSE UNCHANGED <<memory_current, memory_peak, tracing, trace>>
    /\ result' = <<BenchmarkResult(ResultRuns(times, runs), times,
                                   memory_peak', memory_current')>>
    /\ UNCHANGED <<runs, warmup, measure_memory, w, i, times, tracer_current,
                   tracer_peak, warmed, measured, stat_req, stat_out, func,
                   peaks>>
    /\ UNCHANGED <<verifyVars, compareVars, parseVars, mainVars, tmplVars,
                   scanVars>>

\* A caller reads one of the result's statistics properties.
GetStat ==
    /\ pc = "done"
    /\ \E p \in StatNames :
         /\ stat_req' = p
         /\ stat_out' = StatOf(p, result[1].times)
    /\ UNCHANGED <<pc, runs, warmup, measure_memory, w, i, times, memory_peak,
                   memory_current, tracing, tracer_current, tracer_peak,
                   warmed, measured, result, func, peaks, trace>>
    /\ UNCHANGED <<verifyVars, compareVars, parseVars, mainVars, tmplVars,
                   scanVars>>

\* ----------------------------------------------------- verify_optimization
\* What a callable does on a case: it returns a value, raises an Exception
\* ("err") or raises another BaseException ("fatal").
ReturnValues == {"a", "b", "nan"}

Behaviours == ReturnValues \cup {"err", "fatal"}

\* original_result != optimized_result: native inequality, under which a
\* float NaN differs from itself.
NotEqual(x, y) == x # y \/ x = "nan"

\* Mutant: no handler, an Exception raised by a callable leaves the verifier.
CaseOutcome_Reraise(o, p) ==
    IF o \in {"fatal", "err"}
    THEN [called |-> <<"original">>, status |-> "RAISED"]
    ELSE IF p \in {"fatal", "err"}
         THEN [called |-> <<"original", "optimized">>, status |-> "RAISED"]
    ELSE IF NotEqual(o, p)
         THEN [called |-> <<"original", "optimized">>, status |-> "MISMATCH"]
    ELSE [called |-> <<"original", "optimized">>, status |-> "PASSED"]

\* Mutant: each callable is invoked in a try block of its own, so optimized
\* is invoked also after original raised.
CaseOutcome_Independent(o, p) ==
    IF o = "fatal" THEN [called |-> <<"original">>, status |-> "RAISED"]
    ELSE IF p = "fatal"
         THEN [called |-> <<"original", "optimized">>, status |-> "RAISED"]
    ELSE IF o = "err" \/ p = "err"
         THEN [called |-> <<"original", "optimized">>, status |-> "ERROR"]
    ELSE IF NotEqual(o, p)
         THEN [called |-> <<"original", "optimized">>, status |-> "MISMATCH"]
    ELSE [called |-> <<"original", "optimized">>, status |-> "PASSED"]

\* Mutant: an Exception raised by optimized is swallowed and the case passes.
CaseOutcome_OptErrIgnored(o, p) ==
    IF o = "fatal" THEN [called |-> <<"original">>, status |-> "RAISED"]
    ELSE IF o = "err" THEN [called |-> <<"original">>, status |-> "ERROR"]
    ELSE IF p = "fatal"
         THEN [called |-> <<"original", "optimized">>, status |-> "RAISED"]
    ELSE IF p = "err"
         THEN [called |-> <<"original", "optimized">>, status |-> "PASSED"]
    ELSE IF NotEqual(o, p)
         THEN [called |-> <<"original", "optimized">>, status |-> "MISMATCH"]
    ELSE [called |-> <<"original", "optimized">>, status |-> "PASSED"]

\* The body of the loop for one case: the try block invokes original, then
\* optimized, then compares; `except Exception` ends the case as an error.
CaseOutcome(o, p) ==
    IF o = "fatal" THEN [called |-> <<"original">>, status |-> "RAISED"]
    ELSE IF o = "err" THEN [called |-> <<"original">>, status |-> "ERROR"]
    ELSE IF p = "fatal"
         THEN [called |-> <<"original", "optimized">>, status |-> "RAISED"]
    ELSE IF p = "err"
         THEN [called |-> <<"original", "optimized">>, status |-> "ERROR"]
    ELSE IF NotEqual(o, p)
         THEN [called |-> <<"original", "optimized">>, status |-> "MISMATCH"]
    ELSE [called |-> <<"original", "optimized">>, status |-> "PASSED"]

\* Mutant: all_passed is assigned by every case, so the last case decides.
AllPassedAfter_Last(passed, status) == status = "PASSED"

\* all_passed after a case: set to False by a mismatch or an error.
AllPassedAfter(passed, status) == IF status = "PASSED" THEN passed ELSE FALSE

\* Entry of verify_optimization: all_passed = True.
VerifyInit ==
    /\ vpc = "loop"
    /\ \E n \in 0..MaxCases :
         /\ original \in [1..n -> Behaviours]
         /\ optimized \in [1..n -> Behaviours]
    /\ verbose \in BOOLEAN
    /\ vi = 0
    /\ all_passed = TRUE
    /\ invoked = <<>>
    /\ matched = <<>>
    /\ printed = <<>>
    /\ vresult = <<>>

\* One pass of `for i, args in enumerate(test_cases)`.
VerifyCase ==
    /\ vpc = "loop"
    /\ vi < Len(original)
    /\ LET c == vi + 1
           out == CaseOutcome(original[c], optimized[c])
       IN /\ invoked' = invoked \o
                 [k \in 1..Len(out.called) |-> <<out.called[k], c>>]
          /\ IF out.status = "RAISED"
             THEN /\ vpc' = "raised"
                  /\ UNCHANGED <<vi, all_passed, matched, printed>>
             ELSE /\ vpc' = vpc
                  /\ vi' = c
                  /\ all_passed' = AllPassedAfter(all_passed, out.status)
                  /\ matched' = Append(matched, out.status = "PASSED")
                  /\ printed' = IF verbose
                                THEN Append(printed, <<out.status, c>>)
                                ELSE printed
    /\ UNCHANGED <<original, optimized, verbose, vresult>>
    /\ UNCHANGED <<benchVars, compareVars, parseVars, mainVars, tmplVars,
                   scanVars>>

\* The loop is over: print the summary if verbose, return all_passed.
VerifyReturn ==
    /\ vpc = "loop"
    /\ vi = Len(original)
    /\ vpc' = "done"
    /\ printed' = IF verbose
                  THEN Append(printed, <<IF all_passed THEN "ALL_PASSED"
                                         ELSE "SOME_FAILED", Len(original)>>)
                  ELSE printed
    /\ vresult' = <<all_passed>>
    /\ UNCHANGED <<original, optimized, verbose, vi, all_passed, invoked,
                   matched>>
    /\ UNCHANGED <<benchVars, compareVars, parseVars, mainVars, tmplVars,
                   scanVars>>

\* verify_optimization as a function of its two callables: whether it
\* returns, each evaluated case's match flag and the value of all_passed.
RECURSIVE VerifyFrom(_, _, _, _, _)
VerifyFrom(orig, opt, c, flags, passed) ==
    IF c > Len(orig)
    THEN [returned |-> TRUE, matched |-> flags, all_passed |-> passed]
    ELSE LET out == CaseOutcome(orig[c], opt[c])
         IN IF out.status = "RAISED"
            THEN [returned |-> FALSE, matched |-> flags, all_passed |-> passed]
            ELSE VerifyFrom(orig, opt, c + 1,
                            Append(flags, out.status = "PASSED"),
                            AllPassedAfter(passed, out.status))

verify_optimization(orig, opt) == VerifyFrom(orig, opt, 1, <<>>, TRUE)

\* --------------------------------------------------------- compare_results
\* round(n / d, ndigits) scaled to an integer: n / d is the scaled exact
\* value, rounded to the nearest integer, a tie to the even one (d > 0).
Round(n, d) ==
    LET q == n \div d
        r == n - q * d
    IN IF 2 * r < d THEN q
       ELSE IF 2 * r > d THEN q + 1
       ELSE IF q % 2 = 0 THEN q ELSE q + 1

NoComparison(e) ==
    [kind |-> e, before_ms |-> 0, after_ms |-> 0, time_improvement |-> 0,
     speedup_inf |-> FALSE, speedup_factor |-> 0, before_kb |-> 0,
     after_kb |-> 0, memory_improvement |-> 0, verdict |-> "none"]

\* memory_improvement: a percentage of before.memory_peak, 0 when that is 0;
\* reported rounded to 2 decimals (the value kept is in hundredths).
MemoryImprovement(bp, ap) ==
    IF bp > 0 THEN Round((bp - ap) * 10000, bp) ELSE 0

\* Mutant: a tie counts as an improvement (`>=` for `>`).
Verdict_TieImproved(x) ==
    IF x >= 0 THEN "IMPROVED" ELSE "REGRESSED"

\* Mutant: the two comparisons are the wrong way round.
Verdict_Inverted(x) ==
    IF x < 0 THEN "IMPROVED" ELSE IF x > 0 THEN "REGRESSED" ELSE "UNCHANGED"

\* "IMPROVED" if time_improvement > 0 else ("REGRESSED" if < 0 else
\* "UNCHANGED"), on the unrounded value, whose sign is that of x.
Verdict(x) ==
    IF x > 0 THEN "IMPROVED" ELSE IF x < 0 THEN "REGRESSED" ELSE "UNCHANGED"

\* compare_results(before, after).  The means are sb / nb and sa / na.  The
\* reported numbers are kept scaled: *_ms in 0.0001 ms, percentages and the
\* speedup in hundredths, *_kb in hundredths of a KB.
compare_results(b, a) ==
    IF b.times = <<>> \/ a.times = <<>> THEN NoComparison("StatisticsError")
    ELSE LET sb == SumSeq(b.times)
             nb == Len(b.times)
             sa == SumSeq(a.times)
             na == Len(a.times)
         IN IF sb = 0 THEN NoComparison("ZeroDivisionError")
            ELSE [kind |-> "value",
                  before_ms |-> Round(sb * 10, nb),
                  after_ms |-> Round(sa * 10, na),
                  time_improvement |->
                      Round((sb * na - sa * nb) * 10000, sb * na),
                  speedup_inf |-> ~(sa > 0),
                  speedup_factor |->
                      IF sa > 0 THEN Round(sb * na * 100, sa * nb) ELSE 0,
                  before_kb |-> Round(b.memory_peak * 100, 1024),
                  after_kb |-> Round(a.memory_peak * 100, 1024),
                  memory_improvement |->
                      MemoryImprovement(b.memory_peak, a.memory_peak),
                  verdict |-> Verdict(sb * na - sa * nb)]

\* The sequences over S of length at most n.
SeqsUpTo(S, n) == UNION {[1..k -> S] : k \in 0..n}

\* The BenchmarkResults benchmark_function can return with at most
\* MaxSamples samples (memory_current, which compare_results does not read,
\* is left at 0).
Results ==
    {BenchmarkResult(Len(ts), ts, peak, cur) :
        ts \in SeqsUpTo(ResultDurations, MaxSamples),
        peak \in MemLevels, cur \in {0}}

CompareInit ==
    /\ cpc = "ready"
    /\ before \in Results
    /\ after \in Results
    /\ comparison = NoComparison("none")

\* The call compare_results(before, after).
Compare ==
    /\ cpc = "ready"
    /\ cpc' = "done"
    /\ comparison' = compare_results(before, after)
    /\ UNCHANGED <<before, after>>
    /\ UNCHANGED <<benchVars, verifyVars, parseVars, mainVars, tmplVars,
                   scanVars>>

\* ---------------------------------------------------------------- parse_arg
MaxArgs == 2

\* Command-line tokens, one or more of each kind parse_arg tells apart.
Tokens == {"true", "True", "TRUE", "false", "42", "-3.5", "[1, 2]",
           "{'a': 1}", "'x'", "None", "hello", "1 +", "", "{[1]: 2}"}

\* str.lower() on the tokens.
Lower(t) ==
    CASE t \in {"true", "True", "TRUE"} -> "true"
      [] t = "false" -> "false"
      [] t = "None" -> "none"
      [] OTHER -> t

\* A Python value: its type and its repr.
PyValue(type, text) == [kind |-> "value", type |-> type, text |-> text]

PyRaised(e) == [kind |-> e, type |-> "none", text |-> ""]

\* ast.literal_eval on the tokens: the literal's value, ValueError for a
\* well-formed expression that is no literal (a name, an operator),
\* SyntaxError for text that is no expression, TypeError for a dict or set
\* display with an unhashable key.
literal_eval(t) ==
    CASE t = "True" -> PyValue("bool", "True")
      [] t = "42" -> PyValue("int", "42")
      [] t = "-3.5" -> PyValue("float", "-3.5")
      [] t = "[1, 2]" -> PyValue("list", "[1, 2]")
      [] t = "{'a': 1}" -> PyValue("dict", "{'a': 1}")
      [] t = "'x'" -> PyValue("str", "'x'")
      [] t = "None" -> PyValue("NoneType", "None")
      [] t \in {"true", "TRUE", "false", "hello"} -> PyRaised("ValueError")
      [] t \in {"1 +", ""} -> PyRaised("SyntaxError")
      [] t = "{[1]: 2}" -> PyRaised("TypeError")

\* The raw string arg as a value: repr quotes it.
RawString(t) == PyValue("str", "'" \o t \o "'")

\* parse_arg(arg).
parse_arg(arg) ==
    IF Lower(arg) = "true" THEN PyValue("bool", "True")
    ELSE IF Lower(arg) = "false" THEN PyValue("bool", "False")
    ELSE LET v == literal_eval(arg)
         IN IF v.kind \in {"ValueError", "SyntaxError"} THEN RawString(arg)
            ELSE v

\* main is at parsed_args = [parse_arg(a) for a in args.args].
ParseInit ==
    /\ ppc = "parsing"
    /\ tokens \in SeqsUpTo(Tokens, MaxArgs)
    /\ parsed_args = <<>>

\* parse_arg on the next token: its value joins the list, or what it raises
\* leaves the comprehension.
ParseArg ==
    /\ ppc = "parsing"
    /\ Len(parsed_args) < Len(tokens)
    /\ LET v == parse_arg(tokens[Len(parsed_args) + 1])
       IN IF v.kind = "value"
          THEN parsed_args' = Append(parsed_args, v) /\ ppc' = ppc
          ELSE parsed_args' = parsed_args /\ ppc' = "raised"
    /\ UNCHANGED tokens
    /\ UNCHANGED <<benchVars, verifyVars, compareVars, mainVars, tmplVars,
                   scanVars>>

\* Every token is parsed.
ParseDone ==
    /\ ppc = "parsing"
    /\ Len(parsed_args) = Len(tokens)
    /\ ppc' = "done"
    /\ UNCHANGED <<tokens, parsed_args>>
    /\ UNCHANGED <<benchVars, verifyVars, compareVars, mainVars, tmplVars,
                   scanVars>>

\* ----------------------------------------------------- benchmark_comparison
\* for _ in range(10) in the warmup of benchmark_comparison.
WarmupRounds == 10

Call(f, phase) == [f |-> f, phase |-> phase]

\* The dict benchmark_comparison returns, its numbers kept scaled (times in
\* 0.0001 ms, speedup and percentage in hundredths): the divisions by runs
\* and by original_time are unguarded, the one by optimized_time is not.
ComparisonOf(ot, pt, n) ==
    IF n = 0 \/ ot = 0
    THEN [kind |-> "ZeroDivisionError", original_time_ms |-> 0,
          optimized_time_ms |-> 0, speedup_inf |-> FALSE, speedup |-> 0,
          improvement_percent |-> 0]
    ELSE [kind |-> "value",
          original_time_ms |-> Round(ot * 10, n),
          optimized_time_ms |-> Round(pt * 10, n),
          speedup_inf |-> ~(pt > 0),
          speedup |-> IF pt > 0 THEN Round(ot * 100, pt) ELSE 0,
          improvement_percent |-> Round((ot - pt) * 10000, ot)]

\* Entry of benchmark_comparison(original, optimized, args, runs).
TmplInit ==
    /\ tpc = "warmup_original"
    /\ truns \in 0..MaxRuns
    /\ tk = 0
    /\ calls = <<>>
    /\ original_time = 0
    /\ optimized_time = 0
    /\ tresult = <<>>

\* A warmup round's call of original; whatever it raises leaves the
\* function (there is no handler).
TmplWarmupOriginal ==
    /\ tpc = "warmup_original"
    /\ tk < WarmupRounds
    /\ calls' = Append(calls, Call("original", "warmup"))
    /\ \E o \in Outcomes :
         tpc' = IF o = "ok" THEN "warmup_optimized" ELSE "raised"
    /\ UNCHANGED <<truns, tk, original_time, optimized_time, tresult>>
    /\ UNCHANGED <<benchVars, verifyVars, compareVars, parseVars, mainVars,
                   scanVars>>

\* The same round's call of optimized.
TmplWarmupOptimized ==
    /\ tpc = "warmup_optimized"
    /\ calls' = Append(calls, Call("optimized", "warmup"))
    /\ \E o \in Outcomes :
         IF o = "ok"
         THEN tpc' = "warmup_original" /\ tk' = tk + 1
         ELSE tpc' = "raised" /\ tk' = tk
    /\ UNCHANGED <<truns, original_time, optimized_time, tresult>>
    /\ UNCHANGED <<benchVars, verifyVars, compareVars, parseVars, mainVars,
                   scanVars>>

\* The warmup is over: start = time.perf_counter() for original's loop.
TmplStartOriginal ==
    /\ tpc = "warmup_original"
    /\ tk = WarmupRounds
    /\ tpc' = "time_original"
    /\ tk' = 0
    /\ UNCHANGED <<truns, calls, original_time, optimized_time, tresult>>
    /\ UNCHANGED <<benchVars, verifyVars, compareVars, parseVars, mainVars,
                   scanVars>>

\* One timed call of original.
TmplTimeOriginal ==
    /\ tpc = "time_original"
    /\ tk < truns
    /\ calls' = Append(calls, Call("original", "timed"))
    /\ \E o \in Outcomes :
         IF o = "ok"
         THEN \E d \in Durations :
                /\ original_time' = original_time + d
                /\ tk' = tk + 1
                /\ tpc' = tpc
         ELSE tpc' = "raised" /\ UNCHANGED <<tk, original_time>>
    /\ UNCHANGED <<truns, optimized_time, tresult>>
    /\ UNCHANGED <<benchVars, verifyVars, compareVars, parseVars, mainVars,
                   scanVars>>

\* original's loop is over: start = time.perf_counter() for optimized's.
TmplStartOptimized ==
    /\ tpc = "time_original"
    /\ tk = truns
    /\ tpc' = "time_optimized"
    /\ tk' = 0
    /\ UNCHANGED <<truns, calls, original_time, optimized_time, tresult>>
    /\ UNCHANGED <<benchVars, verifyVars, compareVars, parseVars, mainVars,
                   scanVars>>

\* One timed call of optimized.
TmplTimeOptimized ==
    /\ tpc = "time_optimized"
    /\ tk < truns
    /\ calls' = Append(calls, Call("optimized", "timed"))
    /\ \E o \in Outcomes :
         IF o = "ok"
         THEN \E d \in Durations :
                /\ optimized_time' = optimized_time + d
                /\ tk' = tk + 1
                /\ tpc' = tpc
         ELSE tpc' = "raised" /\ UNCHANGED <<tk, optimized_time>>
    /\ UNCHANGED <<truns, original_time, tresult>>
    /\ UNCHANGED <<benchVars, verifyVars, compareVars, parseVars, mainVars,
                   scanVars>>

\* Both loops are over: the speedup and the returned dict.
TmplReturn ==
    /\ tpc = "time_optimized"
    /\ tk = truns
    /\ tresult' = <<ComparisonOf(original_time, optimized_time, truns)>>
    /\ tpc' = IF tresult'[1].kind = "value" THEN "done" ELSE "raised"
    /\ UNCHANGED <<truns, tk, calls, original_time, optimized_time>>
    /\ UNCHANGED <<benchVars, verifyVars, compareVars, parseVars, mainVars,
                   scanVars>>

\* -------------------------------------------------------- benchmark.py main
MaxCliRuns == 1
MaxCliWarmup == 1

\* Every token of the command line parses.
ParsesAll(ts) == \A k \in DOMAIN ts : parse_arg(ts[k]).kind = "value"

\* The events main adds to the trace: a target loaded ("load") or not
\* ("load_failed"), a text printed ("print": the header, a result table, the
\* comparison table), the JSON file written ("save").
ReportTexts == {"result", "compare_result", "comparison"}

\* main after parser.parse_args(): --runs, --warmup, --no-memory, whether
\* --compare and --output are given, and whether load_module_from_file and
\* getattr succeed on args.file and on args.compare.
MainInit ==
    /\ mpc = "parse_args"
    /\ args \in [runs : 0..MaxCliRuns, warmup : 0..MaxCliWarmup,
                 no_memory : BOOLEAN, compare : BOOLEAN, output : BOOLEAN]
    /\ loadable \in [file : BOOLEAN, compare : BOOLEAN]
    /\ first = <<>>
    /\ merror = "none"

\* Mutant: the second pass profiles the first target again.
ComparedCallable_First == "func"

\* compare_func = getattr(compare_module, args.function), the callable of
\* the second pass.
ComparedCallable == "compare_func"

\* A call benchmark_function(f, ..., runs=args.runs, warmup=args.warmup,
\* measure_memory=not args.no_memory) is entered.
EnterBench(f) ==
    /\ pc' = "warmup"
    /\ runs' = args.runs
    /\ warmup' = args.warmup
    /\ measure_memory' = ~args.no_memory
    /\ w' = 0
    /\ i' = 0
    /\ times' = <<>>
    /\ memory_peak' = 0
    /\ memory_current' = 0
    /\ warmed' = <<>>
    /\ measured' = <<>>
    /\ result' = <<>>
    /\ func' = f
    /\ peaks' = <<>>
    /\ UNCHANGED <<tracing, tracer_current, tracer_peak, stat_req, stat_out>>

\* parsed_args = [parse_arg(a) for a in args.args]: what parse_arg raises
\* leaves main (--generate-data replaces the list only afterwards, and the
\* callables' arguments are not looked at here).
MainParseArgs ==
    /\ mpc = "parse_args"
    /\ \E ts \in SeqsUpTo(Tokens, MaxArgs) :
         IF ParsesAll(ts)
         THEN mpc' = "load" /\ merror' = merror
         ELSE mpc' = "raised" /\ merror' = "parse_arg"
    /\ UNCHANGED <<args, loadable, first>>
    /\ UNCHANGED <<benchVars, verifyVars, compareVars, parseVars, tmplVars,
                   scanVars>>

\* module = load_module_from_file(args.file); func = getattr(...); the
\* header is printed and benchmark_function(func, ...) is entered.  A load
\* that fails raises out of main.
MainLoad ==
    /\ mpc = "load"
    /\ IF loadable.file
       THEN /\ trace' = trace \o <<Event("load", "func"),
                                   Event("print", "header")>>
            /\ EnterBench("func")
            /\ mpc' = "bench"
            /\ merror' = merror
       ELSE /\ trace' = Append(trace, Event("load_failed", "func"))
            /\ mpc' = "raised"
            /\ merror' = "load"
            /\ UNCHANGED <<pc, runs, warmup, measure_memory, w, i, times,
                           memory_peak, memory_current, tracing,
                           tracer_current, tracer_peak, warmed, measured,
                           result, stat_req, stat_out, func, peaks>>
    /\ UNCHANGED <<args, loadable, first>>
    /\ UNCHANGED <<verifyVars, compareVars, parseVars, tmplVars, scanVars>>

\* What benchmark_function lets through leaves main too.
MainRaise ==
    /\ mpc \in {"bench", "bench_compare"}
    /\ pc = "raised"
    /\ mpc' = "raised"
    /\ merror' = "callable"
    /\ UNCHANGED <<args, loadable, first>>
    /\ UNCHANGED <<benchVars, verifyVars, compareVars, parseVars, tmplVars,
                   scanVars>>

\* print(format_result_table(result)) and output_data: the table reads the
\* statistics, which raise for a result without samples.
MainReport ==
    /\ mpc = "bench"
    /\ pc = "done"
    /\ IF avg_time(result[1].times).kind # "value"
       THEN /\ mpc' = "raised"
            /\ merror' = "format_result_table"
            /\ UNCHANGED <<first, trace>>
       ELSE /\ trace' = Append(trace, Event("print", "result"))
            /\ first' = result
            /\ mpc' = IF args.compare THEN "load_compare" ELSE "save"
            /\ merror' = merror
    /\ UNCHANGED <<args, loadable>>
    /\ UNCHANGED <<pc, runs, warmup, measure_memory, w, i, times,
                   memory_peak, memory_current, tracing, tracer_current,
                   tracer_peak, warmed, measured, result, stat_req, stat_out,
                   func, peaks>>
    /\ UNCHANGED <<verifyVars, compareVars, parseVars, tmplVars, scanVars>>

\* if args.compare: the second target is loaded and
\* benchmark_function(compare_func, ...) is entered.
MainLoadCompare ==
    /\ mpc = "load_compare"
    /\ IF loadable.compare
       THEN /\ trace' = Append(trace, Event("load", "compare_func"))
            /\ EnterBench(ComparedCallable)
            /\ mpc' = "bench_compare"
            /\ merror' = merror
       ELSE /\ trace' = Append(trace, Event("load_failed", "compare_func"))
            /\ mpc' = "raised"
            /\ merror' = "load"
            /\ UNCHANGED <<pc, runs, warmup, measure_memory, w, i, times,
                           memory_peak, memory_current, tracing,
                           tracer_current, tracer_peak, warmed, measured,
                           result, stat_req, stat_out, func, peaks>>
    /\ UNCHANGED <<args, loadable, first>>
    /\ UNCHANGED <<verifyVars, compareVars, parseVars, tmplVars, scanVars>>

\* The second table, compare_results(result, compare_result) and the
\* comparison table.
MainCompare ==
    /\ mpc = "bench_compare"
    /\ pc = "done"
    /\ IF avg_time(result[1].times).kind # "value"
       THEN /\ mpc' = "raised"
            /\ merror' = "format_result_table"
            /\ trace' = trace
       ELSE IF compare_results(first[1], result[1]).kind # "value"
       THEN /\ mpc' = "raised"
            /\ merror' = "compare_results"
            /\ trace' = Append(trace, Event("print", "compare_result"))
       ELSE /\ mpc' = "save"
            /\ merror' = merror
            /\ trace' = trace \o <<Event("print", "compare_result"),
                                   Event("print", "comparison")>>
    /\ UNCHANGED <<args, loadable, first>>
    /\ UNCHANGED <<pc, runs, warmup, measure_memory, w, i, times,
                   memory_peak, memory_current, tracing, tracer_current,
                   tracer_peak, warmed, measured, result, stat_req, stat_out,
                   func, peaks>>
    /\ UNCHANGED <<verifyVars, compareVars, parseVars, tmplVars, scanVars>>

\* if args.output: json.dump(output_data, f); return 0.
MainSave ==
    /\ mpc = "save"
    /\ mpc' = "done"
    /\ trace' = IF args.output THEN Append(trace, Event("save", "output"))
                ELSE trace
    /\ UNCHANGED <<args, loadable, first, merror>>
    /\ UNCHANGED <<pc, runs, warmup, measure_memory, w, i, times,
                   memory_peak, memory_current, tracing, tracer_current,
                   tracer_peak, warmed, measured, result, stat_req, stat_out,
                   func, peaks>>
    /\ UNCHANGED <<verifyVars, compareVars, parseVars, tmplVars, scanVars>>

\* ------------------------------------------------------------- auto-scan.py
MaxFiles == 2
MaxLines == 1

\* A line of a file, by what scan_file looks at: whether it is a comment
\* (it starts with // or #) and how many patterns of SECURITY_PATTERNS,
\* QUALITY_PATTERNS and PERFORMANCE_PATTERNS it matches.
Line(c, s, q, p) ==
    [comment |-> c, security |-> s, quality |-> q, performance |-> p]

Lines == {Line(FALSE, 0, 0, 0), Line(TRUE, 1, 0, 0), Line(FALSE, 1, 0, 0),
          Line(FALSE, 0, 1, 1), Line(FALSE, 2, 0, 0)}

\* What path.rglob('*') yields: a file with a scanned suffix ("source", its
\* text readable or not), such a file under node_modules, .git, dist or
\* build ("skipped"), or anything else ("other").
Paths ==
    {[kind |-> "source", readable |-> TRUE, lines |-> c] :
        c \in SeqsUpTo(Lines, MaxLines)}
    \cup {[kind |-> k, readable |-> FALSE, lines |-> <<>>] :
        k \in {"source", "skipped", "other"}}

Issue(severity, type, line) ==
    [severity |-> severity, type |-> type, line |-> line]

\* n copies of x.
RECURSIVE Copies(_, _)
Copies(x, n) == IF n = 0 THEN <<>> ELSE <<x>> \o Copies(x, n - 1)

\* The issues scan_file appends for line number n: none for a comment, else
\* one per matching pattern, security first, then quality, then performance.
IssuesOfLine(l, n) ==
    IF l.comment THEN <<>>
    ELSE Copies(Issue("critical", "security", n), l.security)
         \o Copies(Issue("medium", "quality", n), l.quality)
         \o Copies(Issue("high", "performance", n), l.performance)

RECURSIVE IssuesFrom(_, _)
IssuesFrom(ls, n) ==
    IF n > Len(ls) THEN <<>>
    ELSE IssuesOfLine(ls[n], n) \o IssuesFrom(ls, n + 1)

\* scan_file(filepath): a file that cannot be read gives one info issue.
scan_file(name, p) ==
    LET issues == IF p.readable THEN IssuesFrom(p.lines, 1)
                  ELSE <<Issue("info", "error", 0)>>
    IN [file |-> name, issues |-> issues, issue_count |-> Len(issues)]

\* Mutant: the counter is set, not incremented.
CountIssue_Set(counter, key) == [counter EXCEPT ![key] = 1]

\* results['by_severity'][issue['severity']] += 1, and the same by type.
CountIssue(counter, key) == [counter EXCEPT ![key] = @ + 1]

\* for issue in file_result['issues']: both counters.
RECURSIVE CountIssues(_, _)
CountIssues(r, issues) ==
    IF issues = <<>> THEN r
    ELSE CountIssues(
            [r EXCEPT !.by_severity = CountIssue(@, Head(issues).severity),
                      !.by_type = CountIssue(@, Head(issues).type)],
            Tail(issues))

\* The body of scan_directory's loop for a scanned file.
AddFile(r, fr) ==
    CountIssues([r EXCEPT !.total_files = @ + 1,
                          !.files = Append(@, fr),
                          !.total_issues = @ + fr.issue_count],
                fr.issues)

\* if results['by_severity']['critical'] > 0: exit(1); else main returns.
ExitStatus(r) == IF r.by_severity["critical"] > 0 THEN 1 ELSE 0

NoResults ==
    [total_files |-> 0, total_issues |-> 0,
     by_severity |-> [critical |-> 0, high |-> 0, medium |-> 0, info |-> 0],
     by_type |-> [security |-> 0, quality |-> 0, performance |-> 0,
                  error |-> 0],
     files |-> <<>>]

\* main has called scan_directory(args.directory), which is at its loop.
ScanInit ==
    /\ spc = "scanning"
    /\ directory \in SeqsUpTo(Paths, MaxFiles)
    /\ si = 1
    /\ results = NoResults
    /\ scan_format \in {"json", "markdown"}
    /\ exit_status = -1

\* One pass of the loop over path.rglob('*').
ScanPath ==
    /\ spc = "scanning"
    /\ si <= Len(directory)
    /\ results' = IF directory[si].kind = "source"
                  THEN AddFile(results, scan_file(si, directory[si]))
                  ELSE results
    /\ si' = si + 1
    /\ UNCHANGED <<spc, directory, scan_format, exit_status>>
    /\ UNCHANGED <<benchVars, verifyVars, compareVars, parseVars, mainVars,
                   tmplVars>>

\* scan_directory returns results.
ScanReturn ==
    /\ spc = "scanning"
    /\ si > Len(directory)
    /\ spc' = "returned"
    /\ UNCHANGED <<directory, si, results, scan_format, exit_status>>
    /\ UNCHANGED <<benchVars, verifyVars, compareVars, parseVars, mainVars,
                   tmplVars>>

\* main prints the report in the chosen format and the process exits.
ScanExit ==
    /\ spc = "returned"
    /\ spc' = "exited"
    /\ exit_status' = ExitStatus(results)
    /\ UNCHANGED <<directory, si, results, scan_format>>
    /\ UNCHANGED <<benchVars, verifyVars, compareVars, parseVars, mainVars,
                   tmplVars>>

\* ------------------------------------------------------------ specifications
BenchIdle ==
    /\ pc = "idle"
    /\ runs = 0
    /\ warmup = 0
    /\ measure_memory = FALSE
    /\ w = 0
    /\ i = 0
    /\ times = <<>>
    /\ memory_peak = 0
    /\ memory_current = 0
    /\ tracing = FALSE
    /\ tracer_current = 0
    /\ tracer_peak = 0
    /\ warmed = <<>>
    /\ measured = <<>>
    /\ result = <<>>
    /\ stat_req = "none"
    /\ stat_out = Value(0, 1)
    /\ func = "none"
    /\ peaks = <<>>
    /\ trace = <<>>

VerifyIdle ==
    /\ vpc = "idle"
    /\ original = <<>>
    /\ optimized = <<>>
    /\ verbose = FALSE
    /\ vi = 0
    /\ all_passed = TRUE
    /\ invoked = <<>>
    /\ matched = <<>>
    /\ printed = <<>>
    /\ vresult = <<>>

CompareIdle ==
    /\ cpc = "idle"
    /\ before = BenchmarkResult(0, <<>>, 0, 0)
    /\ after = BenchmarkResult(0, <<>>, 0, 0)
    /\ comparison = NoComparison("none")

ParseIdle ==
    /\ ppc = "idle"
    /\ tokens = <<>>
    /\ parsed_args = <<>>

MainIdle ==
    /\ mpc = "idle"
    /\ args = [runs |-> 0, warmup |-> 0, no_memory |-> FALSE,
               compare |-> FALSE, output |-> FALSE]
    /\ loadable = [file |-> FALSE, compare |-> FALSE]
    /\ first = <<>>
    /\ merror = "none"

TmplIdle ==
    /\ tpc = "idle"
    /\ truns = 0
    /\ tk = 0
    /\ calls = <<>>
    /\ original_time = 0
    /\ optimized_time = 0
    /\ tresult = <<>>

ScanIdle ==
    /\ spc = "idle"
    /\ directory = <<>>
    /\ si = 1
    /\ results = NoResults
    /\ scan_format = "markdown"
    /\ exit_status = -1

\* One call of benchmark_function, and reads of its result's statistics.
Init ==
    BenchInit /\ VerifyIdle /\ CompareIdle /\ ParseIdle /\ MainIdle
    /\ TmplIdle /\ ScanIdle

Next == WarmupCall \/ StartMeasure \/ MeasuredCall \/ BenchReturn \/ GetStat

Spec == Init /\ [][Next]_vars

\* One call of verify_optimization.
InitVerify ==
    BenchIdle /\ VerifyInit /\ CompareIdle /\ ParseIdle /\ MainIdle
    /\ TmplIdle /\ ScanIdle

NextVerify == VerifyCase \/ VerifyReturn

SpecVerify == InitVerify /\ [][NextVerify]_vars

\* One call of compare_results.
InitCompare ==
    BenchIdle /\ VerifyIdle /\ CompareInit /\ ParseIdle /\ MainIdle
    /\ TmplIdle /\ ScanIdle

NextCompare == Compare

SpecCompare == InitCompare /\ [][NextCompare]_vars


\* The argument tokens of one command line, parsed in order.
InitParse ==
    BenchIdle /\ VerifyIdle /\ CompareIdle /\ ParseInit /\ MainIdle
    /\ TmplIdle /\ ScanIdle

NextParse == ParseArg \/ ParseDone

SpecParse == InitParse /\ [][NextParse]_vars

\* One before/after benchmarking run: of the command line of benchmark.py,
\* or one call of benchmark_comparison.
InitBeforeAfter ==
    /\ BenchIdle /\ VerifyIdle /\ CompareIdle /\ ParseIdle /\ ScanIdle
    /\ \/ MainInit /\ TmplIdle
       \/ MainIdle /\ TmplInit

NextBeforeAfter ==
    \/ MainParseArgs \/ MainLoad \/ MainRaise \/ MainReport
    \/ MainLoadCompare \/ MainCompare \/ MainSave
    \/ WarmupCall \/ StartMeasure \/ MeasuredCall \/ BenchReturn
    \/ TmplWarmupOriginal \/ TmplWarmupOptimized \/ TmplStartOriginal
    \/ TmplTimeOriginal \/ TmplStartOptimized \/ TmplTimeOptimized
    \/ TmplReturn

SpecBeforeAfter == InitBeforeAfter /\ [][NextBeforeAfter]_vars

\* One run of auto-scan.py on a directory.
InitScan ==
    BenchIdle /\ VerifyIdle /\ CompareIdle /\ ParseIdle /\ MainIdle
    /\ TmplIdle /\ ScanInit

NextScan == ScanPath \/ ScanReturn \/ ScanExit

SpecScan == InitScan /\ [][NextScan]_vars

\* ------------------------------------------------------------------- claims
\* The durations of the measured calls that returned, in call order.
RECURSIVE OkDurations(_)
OkDurations(log) ==
    IF log = <<>> THEN <<>>
    ELSE (IF Head(log).o = "ok" THEN <<Head(log).d>> ELSE <<>>)
         \o OkDurations(Tail(log))

\* C1: the samples collected are, in call order, the durations of the
\* measured calls that returned; the result benchmark_function returns has
\* runs = len(times), which is the number of measured calls that did not
\* raise and is at most the requested run count.
C1_RunsIsSampleCount ==
    /\ times = OkDurations(measured)
    /\ pc = "done" =>
         /\ result[1].runs = Len(result[1].times)
         /\ result[1].times = OkDurations(measured)
         /\ result[1].runs <= runs

\* A pass of three measured calls whose second raised: two samples, in order.
C1_Witness ==
    /\ pc = "done"
    /\ runs = 3
    /\ Len(measured) = 3
    /\ measured[1] = [o |-> "ok", d |-> 20002]
    /\ measured[2].o = "err"
    /\ measured[3] = [o |-> "ok", d |-> 10000]
    /\ result[1].runs = 2
    /\ result[1].times = <<20002, 10000>>

\* C2 as stated: once a measured call has raised, whatever it raised, the
\* pass is not aborted.
C2_RaiseNeverAborts ==
    (\E k \in 1..Len(measured) : measured[k].o # "ok") => pc # "raised"

\* C2 as amended: a measured call that raises an Exception does not abort
\* the pass.  Every measured iteration attempts the callable once, a pass
\* that returns has attempted it exactly `runs` times whatever subset of the
\* calls raised an Exception, and the pass is left by a raise only when the
\* call just made raised a BaseException that is not an Exception.
C2_ExceptionNeverAborts ==
    /\ pc \in {"measure", "done"} => Len(measured) = i
    /\ pc = "done" => Len(measured) = runs /\ Len(result) = 1
    /\ pc = "raised" =>
         \/ warmed # <<>> /\ warmed[Len(warmed)] = "fatal"
         \/ measured # <<>> /\ measured[Len(measured)].o = "fatal"

\* A pass of three measured calls, the first and the last of which raised an
\* Exception, that returned a result.
C2_Witness ==
    /\ pc = "done"
    /\ runs = 3
    /\ Len(measured) = 3
    /\ measured[1].o = "err"
    /\ measured[2].o = "ok"
    /\ measured[3].o = "err"
    /\ result[1].runs = 1

\* C3: every statistic requested of a result that holds no sample fails
\* with an error; none returns a number.
C3_NoStatisticOfEmpty ==
    (pc = "done" /\ runs >= 1 /\ stat_req # "none" /\ result[1].times = <<>>)
        => stat_out.kind # "value"

\* What the callable of an invocation <<callable, case>> does on that case.
BehaviourOf(e) == IF e[1] = "original" THEN original[e[2]] ELSE optimized[e[2]]

\* C4 as stated: a case on which either invocation raised, whatever it
\* raised, is counted as not matched, and verify_optimization is never left
\* by a raise.
C4_VerifierNeverRaises ==
    /\ \A c \in 1..vi :
         (original[c] \notin ReturnValues \/ optimized[c] \notin ReturnValues)
             => ~matched[c]
    /\ vpc # "raised"

\* C4 as amended: if either invocation raises an Exception on a case, the
\* case is counted as not matched and the verifier goes on: a call that
\* returns has evaluated every case of the corpus, and the call is left by a
\* raise only when the invocation just made raised a BaseException that is
\* not an Exception.
C4_ErrorCaseNotMatched ==
    /\ Len(matched) = vi
    /\ \A c \in 1..vi :
         (original[c] = "err" \/ optimized[c] = "err") => ~matched[c]
    /\ vpc = "done" => vi = Len(original) /\ Len(vresult) = 1
    /\ vpc = "raised" =>
         invoked # <<>> /\ BehaviourOf(invoked[Len(invoked)]) = "fatal"

\* Two cases: original raises on the first, optimized on the second; both
\* are evaluated and neither matched.
C4_Witness ==
    /\ vpc = "done"
    /\ Len(original) = 2
    /\ original[1] = "err"
    /\ original[2] \in ReturnValues
    /\ optimized[2] = "err"
    /\ matched = <<FALSE, FALSE>>

\* Equality of two returned outputs under the language's native comparison.
OutputsEqual(x, y) == x = y /\ x # "nan"

\* Both callables returned on case c, with equal outputs.
CaseAgrees(c) ==
    /\ original[c] \in ReturnValues
    /\ optimized[c] \in ReturnValues
    /\ OutputsEqual(original[c], optimized[c])

\* C5: verify_optimization returns true iff on every case of the corpus
\* both invocations returned and their outputs are equal (so true on an
\* empty corpus); all_passed is throughout the conjunction over the cases
\* evaluated so far, so once a case fails no later case makes it true.
C5_AllPassedIffEveryCaseAgrees ==
    /\ vpc # "idle" => all_passed = (\A c \in 1..vi : CaseAgrees(c))
    /\ vpc = "done" =>
         vresult = <<\A c \in 1..Len(original) : CaseAgrees(c)>>

\* The first case mismatches, the second agrees, and the result is false.
C5_Witness ==
    /\ vpc = "done"
    /\ Len(original) = 2
    /\ original[1] = "a" /\ optimized[1] = "b"
    /\ original[2] = "b" /\ optimized[2] = "b"
    /\ matched = <<FALSE, TRUE>>
    /\ vresult = <<FALSE>>

\* Both callables invoked on each of the cases 1..n, in corpus order.
BothPerCase(n) ==
    [k \in 1..(2 * n) |->
        <<IF k % 2 = 1 THEN "original" ELSE "optimized", (k + 1) \div 2>>]

\* C6 as stated: a call that returns has invoked, for each case in corpus
\* order, the reference and then the candidate, whatever the reference did.
C6_BothInvokedOnEveryCase ==
    vpc = "done" => invoked = BothPerCase(Len(original))

\* The invocations of the cases c..n when optimized is invoked on a case
\* only after original returned on it.
RECURSIVE CallsFrom(_, _)
CallsFrom(c, n) ==
    IF c > n THEN <<>>
    ELSE <<(<<"original", c>>)>>
         \o (IF original[c] \in ReturnValues
             THEN <<(<<"optimized", c>>)>> ELSE <<>>)
         \o CallsFrom(c + 1, n)

\* C6 as amended: for each case, in corpus order, the verifier invokes the
\* reference and then, only if the reference returned without raising on
\* that case, the candidate; the candidate is not invoked on a case on which
\* the reference raised.
C6_CandidateOnlyAfterReference ==
    invoked = CallsFrom(1, IF vpc = "raised" THEN vi + 1 ELSE vi)

\* The reference raised on the first case: the candidate was not invoked on
\* it, and both were invoked on the second.
C6_Witness ==
    /\ vpc = "done"
    /\ Len(original) = 2
    /\ original[1] = "err"
    /\ original[2] \in ReturnValues
    /\ invoked = <<(<<"original", 1>>), (<<"original", 2>>),
                   (<<"optimized", 2>>)>>

\* C7 as stated: the call with the two callables swapped returns the same
\* match flag for every case and the same result.
C7_SwapSameFlags ==
    vpc = "done" =>
        LET s == verify_optimization(optimized, original)
        IN /\ s.returned
           /\ s.matched = matched
           /\ <<s.all_passed>> = vresult

\* Neither callable raises anything but an Exception.
NoFatal ==
    \A c \in 1..Len(original) : original[c] # "fatal" /\ optimized[c] # "fatal"

\* C7 as amended: for callables that raise nothing but errors derived from
\* Exception, the call with the two callables swapped returns the same
\* match flag for every case and the same result.
C7_SwapSameFlagsOfExceptions ==
    (NoFatal /\ vpc # "idle") =>
        LET r == verify_optimization(original, optimized)
            s == verify_optimization(optimized, original)
        IN /\ r.returned /\ s.returned
           /\ s.matched = r.matched
           /\ s.all_passed = r.all_passed
           /\ vpc = "done" =>
                (matched = s.matched /\ vresult = <<s.all_passed>>)

\* The reference raises on the first case where the candidate returns, and
\* the second case agrees: the flags of both orders are FALSE, TRUE.
C7_Witness ==
    /\ vpc = "done"
    /\ NoFatal
    /\ Len(original) = 2
    /\ original[1] = "err" /\ optimized[1] = "a"
    /\ original[2] = "b" /\ optimized[2] = "b"
    /\ matched = <<FALSE, TRUE>>
    /\ verify_optimization(optimized, original).matched = <<FALSE, TRUE>>

\* Both arguments of compare_results hold samples, so both means exist.
BothMeasured == before.times # <<>> /\ after.times # <<>>

\* The sign of (mean of before) - (mean of after): the means are
\* SumSeq / Len, compared by cross-multiplication.
MeanDiff ==
    SumSeq(before.times) * Len(after.times)
        - SumSeq(after.times) * Len(before.times)

\* C8: for a baseline and a candidate with the same mean time and the same
\* peak memory, compare_results returns verdict UNCHANGED, a time delta of
\* 0, a memory delta of 0 and a speedup of 1 (100 hundredths).
C8_IdenticalIsUnchanged ==
    (cpc = "done" /\ BothMeasured /\ MeanDiff = 0
        /\ before.memory_peak = after.memory_peak)
    => /\ comparison.kind = "value"
       /\ comparison.verdict = "UNCHANGED"
       /\ comparison.time_improvement = 0
       /\ comparison.memory_improvement = 0
       /\ ~comparison.speedup_inf
       /\ comparison.speedup_factor = 100

\* C9: when the baseline's mean time is zero, or its peak memory is zero,
\* compare_results raises nothing and returns a record whose corresponding
\* delta is 0.
C9_DegenerateBaselineGivesZeroDelta ==
    (cpc = "done" /\ BothMeasured)
    => /\ (SumSeq(before.times) = 0 \/ before.memory_peak = 0)
            => comparison.kind = "value"
       /\ SumSeq(before.times) = 0 => comparison.time_improvement = 0
       /\ before.memory_peak = 0 => comparison.memory_improvement = 0

\* C10 as stated: a candidate mean below the baseline mean gives verdict
\* IMPROVED and a reported time delta above 0.
C10_ImprovedReportsPositiveDelta ==
    (cpc = "done" /\ BothMeasured /\ MeanDiff > 0)
    => /\ comparison.verdict = "IMPROVED"
       /\ comparison.time_improvement > 0

\* C10 as amended: a candidate mean below the baseline mean gives verdict
\* IMPROVED and a reported time delta, which is the percentage rounded to
\* two decimals, that is at least 0, and above 0 when the improvement is at
\* least 0.01 percent of the baseline mean; 10 ms against 5 ms gives delta
\* 50.0 and speedup 2.0.
C10_ImprovedReportsRoundedDelta ==
    (cpc = "done" /\ BothMeasured /\ MeanDiff > 0)
    => /\ comparison.kind = "value"
       /\ comparison.verdict = "IMPROVED"
       /\ comparison.time_improvement >= 0
       /\ MeanDiff * 10000 >= SumSeq(before.times) * Len(after.times)
            => comparison.time_improvement > 0
       /\ (before.times = <<10000>> /\ after.times = <<0, 10000>>)
            => /\ comparison.time_improvement = 5000
               /\ comparison.speedup_factor = 200
               /\ ~comparison.speedup_inf

\* 20.002 ms against 20.001 ms: IMPROVED, with a reported delta of 0.0.
C10_Witness ==
    /\ cpc = "done"
    /\ before.times = <<20002>>
    /\ after.times = <<20001>>
    /\ comparison.verdict = "IMPROVED"
    /\ comparison.time_improvement = 0

\* C11: the verdict of a comparison that compare_results returns is one of
\* IMPROVED, REGRESSED and UNCHANGED, and it is fixed by the sign of the time
\* delta percentage (the unrounded (before.avg - after.avg) / before.avg,
\* whose sign is that of MeanDiff): IMPROVED above 0, REGRESSED below 0,
\* UNCHANGED at exactly 0; the same two results with any other memory
\* figures get the same verdict.
C11_VerdictFollowsTimeSign ==
    (cpc = "done" /\ comparison.kind = "value")
    => /\ comparison.verdict \in {"IMPROVED", "REGRESSED", "UNCHANGED"}
       /\ comparison.verdict = "IMPROVED" <=> MeanDiff > 0
       /\ comparison.verdict = "REGRESSED" <=> MeanDiff < 0
       /\ comparison.verdict = "UNCHANGED" <=> MeanDiff = 0
       /\ \A bp, ap \in MemLevels :
            compare_results([before EXCEPT !.memory_peak = bp],
                            [after EXCEPT !.memory_peak = ap]).verdict
                = comparison.verdict

\* Equal means with more memory after than before: UNCHANGED all the same.
C11_Witness ==
    /\ cpc = "done"
    /\ before.times = <<20001>>
    /\ after.times = <<20001, 20001>>
    /\ before.memory_peak = 0
    /\ after.memory_peak = 1024
    /\ comparison.verdict = "UNCHANGED"

\* C12: whenever the candidate's mean time is 0, whatever the baseline,
\* compare_results raises nothing and returns a record whose speedup is
\* infinite.
C12_ZeroCandidateGivesInfiniteSpeedup ==
    (cpc = "done" /\ BothMeasured /\ SumSeq(after.times) = 0)
    => /\ comparison.kind = "value"
       /\ comparison.speedup_inf

\* a <= b for two values kept as a numerator over a positive denominator.
LeqQ(a, b) == a.num * b.den <= b.num * a.den

\* C15: for the non-empty durations of a returned result, min_time <=
\* avg_time <= max_time, min_time <= median_time <= max_time, std_dev is
\* not negative, none of the five raises, and a request for one of them
\* gives that value.
C15_StatisticsOrdered ==
    (pc = "done" /\ result[1].times # <<>>)
    => LET ts == result[1].times
       IN /\ \A p \in StatNames : StatOf(p, ts).kind = "value"
          /\ LeqQ(min_time(ts), avg_time(ts))
          /\ LeqQ(avg_time(ts), max_time(ts))
          /\ LeqQ(min_time(ts), median_time(ts))
          /\ LeqQ(median_time(ts), max_time(ts))
          /\ LeqQ(Value(0, 1), std_dev(ts))
          /\ stat_req # "none" => stat_out = StatOf(stat_req, ts)

\* Samples 20.002 ms, 0 and 10 ms: the median read is 10 ms, strictly
\* between the minimum and the maximum.
C15_Witness ==
    /\ pc = "done"
    /\ result[1].times = <<20002, 0, 10000>>
    /\ stat_req = "median_time"
    /\ stat_out = Value(10000, 1)

\* The number of events e in the trace.
EventsOf(e) == Cardinality({k \in DOMAIN trace : trace[k].e = e})

\* C16: with measure_memory one pass starts the tracer exactly once, after
\* every warmup call and before the first measured call, and stops it
\* exactly once, after the last measured call; the tracer is off on every
\* exit of benchmark_function, by return or by raise; without
\* measure_memory the tracer is never started.
C16_TracingScopeReleased ==
    /\ pc \in {"done", "raised"} => ~tracing
    /\ ~measure_memory => EventsOf("start") = 0 /\ ~tracing
    /\ EventsOf("start") <= 1
    /\ EventsOf("stop") <= EventsOf("start")
    /\ \A j, k \in DOMAIN trace :
         /\ (trace[j].e = "warmup" /\ trace[k].e = "start") => j < k
         /\ (trace[j].e = "start" /\ trace[k].e = "measure") => j < k
         /\ (trace[j].e = "measure" /\ trace[k].e = "stop") => j < k
    /\ (measure_memory /\ pc = "done")
         => EventsOf("start") = 1 /\ EventsOf("stop") = 1

\* The greatest of the peaks in s, 0 for none.
RECURSIVE MaxPeak(_)
MaxPeak(s) == IF s = <<>> THEN 0 ELSE Max2(Head(s), MaxPeak(Tail(s)))

\* C17 as stated: with measure_memory the returned memory_peak is the
\* greatest of the tracer peaks recorded after the measured calls that
\* returned, whatever calls raised; the running maximum never decreases and
\* the returned memory_current is at most the returned memory_peak.
C17_PeakIsMaxOfSamplePeaks ==
    /\ (measure_memory /\ pc = "measure") => memory_peak = MaxPeak(peaks)
    /\ (measure_memory /\ pc = "done")
         => /\ result[1].memory_peak = MaxPeak(peaks)
            /\ result[1].memory_current <= result[1].memory_peak

\* C17 as amended: during the loop memory_peak is the greatest of the peaks
\* recorded so far, so it never decreases; the returned memory_peak is the
\* greater of that and the tracer's peak read once more after the loop,
\* which counts the calls that raised too: it is at least every recorded
\* peak, and the returned memory_current is at most it.
C17_PeakIsMaxOfSamplesAndFinalRead ==
    /\ (measure_memory /\ pc = "measure") => memory_peak = MaxPeak(peaks)
    /\ (measure_memory /\ pc = "done")
         => /\ result[1].memory_peak = Max2(MaxPeak(peaks), tracer_peak)
            /\ \A k \in DOMAIN peaks : peaks[k] <= result[1].memory_peak
            /\ result[1].memory_current = tracer_current
            /\ result[1].memory_current <= result[1].memory_peak
    /\ ~measure_memory
         => /\ peaks = <<>> /\ memory_peak = 0
            /\ pc = "done" => /\ result[1].memory_peak = 0
                              /\ result[1].memory_current = 0

\* A call that returned at peak 0, then one that raised at peak 1024: the
\* result's memory_peak is 1024, above every recorded peak.
C17_Witness ==
    /\ pc = "done"
    /\ measure_memory
    /\ Len(measured) = 2
    /\ measured[1].o = "ok"
    /\ measured[2].o = "err"
    /\ peaks = <<0>>
    /\ result[1].memory_peak = 1024

\* C19 as stated: the warmup loop calls the callable exactly warmup times
\* before any measured call, whatever a warmup call raises is suppressed
\* (the pass is not left and the later warmup calls are made), and no
\* warmup call adds a sample.
C19_WarmupSuppressesEveryRaise ==
    /\ measured # <<>> => Len(warmed) = warmup
    /\ (pc = "raised" /\ measured = <<>>) => warmed = <<>>
    /\ pc \in {"measure", "done"} => Len(warmed) = warmup
    /\ Len(times) <= Len(measured)

\* C19 as amended: the warmup loop calls the callable exactly warmup times
\* before any measured call and suppresses every error derived from
\* Exception that a warmup call raises (the later warmup calls are made);
\* a BaseException outside Exception raised by a warmup call leaves
\* benchmark_function at once; no warmup call adds a sample.
C19_WarmupSuppressesExceptions ==
    /\ measured # <<>> => Len(warmed) = warmup
    /\ pc \in {"measure", "done"}
         => Len(warmed) = warmup /\ \A k \in DOMAIN warmed : warmed[k] # "fatal"
    /\ pc = "warmup" => w = Len(warmed)
    /\ \A k \in DOMAIN warmed : warmed[k] = "fatal" => k = Len(warmed)
    /\ (pc = "raised" /\ measured = <<>>)
         => warmed # <<>> /\ warmed[Len(warmed)] = "fatal"
    /\ \A j, k \in DOMAIN trace :
         (trace[j].e = "warmup" /\ trace[k].e = "measure") => j < k
    /\ EventsOf("warmup") = Len(warmed)
    /\ times = OkDurations(measured)

\* Two warmup calls, the first of which raised an Exception, then a measured
\* call that returned: one sample, the measured call's.
C19_Witness ==
    /\ warmup = 2
    /\ warmed = <<"err", "ok">>
    /\ Len(measured) = 1
    /\ measured[1].o = "ok"
    /\ Len(times) = 1

\* C13: in every run of the command line, --compare included, a load that
\* fails makes main raise, and before it no callable has been called and no
\* report has been printed or saved.
C13_NothingBeforeFailingLoad ==
    \A k \in DOMAIN trace :
      trace[k].e = "load_failed"
      => /\ mpc = "raised"
         /\ \A j \in 1..(k - 1) :
              /\ trace[j].e \notin {"warmup", "measure", "save"}
              /\ ~(trace[j].e = "print" /\ trace[j].f \in ReportTexts)

\* C14: parse_arg raises on no token: each token gives a boolean when it is
\* "true" or "false" in any letter case, else the literal's value when it
\* parses as a literal, else the raw string unchanged.
C14_ParseArgNeverRaises ==
    /\ ppc # "raised"
    /\ \A k \in DOMAIN parsed_args :
         LET t == tokens[k]
             v == parsed_args[k]
         IN IF Lower(t) \in {"true", "false"} THEN v.type = "bool"
            ELSE IF literal_eval(t).kind = "value" THEN v = literal_eval(t)
            ELSE v = RawString(t)

\* The places in the trace of the calls, warmup or measured, of callable f.
CallsOf(f) ==
    {k \in DOMAIN trace : trace[k].e \in {"warmup", "measure"} /\ trace[k].f = f}

\* The tracing scopes open after the events so far.
OpenScopes == EventsOf("start") - EventsOf("stop")

\* C18 as stated: in the command line's --compare run and in
\* benchmark_comparison alike, every call of the baseline, warmup or
\* measured, is made before the first call of the candidate, and at most
\* one tracing scope is open at any time.
C18_BaselineBeforeCandidate ==
    /\ \A j \in CallsOf("func"), k \in CallsOf("compare_func") : j < k
    /\ \A j, k \in DOMAIN calls :
         (calls[j].f = "original" /\ calls[k].f = "optimized") => j < k
    /\ OpenScopes \in {0, 1}

\* C18 as amended.  Command line: the first pass calls only the baseline and
\* is over before the candidate is loaded, the second pass calls only the
\* candidate, and at most one tracing scope is open at any time (the tracer
\* is on exactly while one is).  benchmark_comparison: the warmup rounds
\* alternate the two callables, original first; every timed call comes after
\* every warmup call, and every timed call of original before every timed
\* call of optimized; it starts no tracer.
C18_PassesAndTimedLoopsInOrder ==
    /\ \A j \in CallsOf("func"), k \in CallsOf("compare_func") : j < k
    /\ \A j \in DOMAIN trace :
         trace[j] = Event("load", "compare_func")
         => /\ \A k \in CallsOf("func") : k < j
            /\ \A k \in CallsOf("compare_func") : j < k
    /\ CallsOf("compare_func") # {}
         => \E j \in DOMAIN trace : trace[j] = Event("load", "compare_func")
    /\ mpc = "bench" => func = "func"
    /\ mpc = "bench_compare" => func = "compare_func" /\ first # <<>>
    /\ LET open == OpenScopes
       IN open \in {0, 1} /\ (tracing <=> open = 1)
    /\ \A k \in DOMAIN calls :
         calls[k].phase = "warmup"
         => /\ k <= 2 * WarmupRounds
            /\ calls[k].f = IF k % 2 = 1 THEN "original" ELSE "optimized"
    /\ \A j, k \in DOMAIN calls :
         /\ (calls[j].phase = "warmup" /\ calls[k].phase = "timed") => j < k
         /\ (calls[j] = Call("original", "timed")
               /\ calls[k] = Call("optimized", "timed")) => j < k
    /\ tpc # "idle" => trace = <<>> /\ ~tracing

\* benchmark_comparison has returned after two timed calls of each callable:
\* the second call made was a warmup call of optimized, the third one of
\* original.
C18_Witness ==
    /\ tpc = "done"
    /\ truns = 2
    /\ Len(calls) = 2 * WarmupRounds + 4
    /\ calls[2] = Call("optimized", "warmup")
    /\ calls[3] = Call("original", "warmup")
    /\ calls[2 * WarmupRounds + 2] = Call("original", "timed")
    /\ calls[2 * WarmupRounds + 3] = Call("optimized", "timed")

RECURSIVE SumIssueCounts(_)
SumIssueCounts(fs) ==
    IF fs = <<>> THEN 0 ELSE Head(fs).issue_count + SumIssueCounts(Tail(fs))

\* C20: between the passes of scan_directory's loop and ever after,
\* total_files is the number of files in results, total_issues is the sum
\* of their issue_count, of the by_severity counters and of the by_type
\* counters; the process exit status is not 0 exactly when
\* by_severity['critical'] is above 0.
C20_TotalsConsistent ==
    spc # "idle"
    => /\ results.total_files = Len(results.files)
       /\ \A k \in DOMAIN results.files :
            results.files[k].issue_count = Len(results.files[k].issues)
       /\ results.total_issues = SumIssueCounts(results.files)
       /\ results.total_issues
            = results.by_severity["critical"] + results.by_severity["high"]
              + results.by_severity["medium"] + results.by_severity["info"]
       /\ results.total_issues
            = results.by_type["security"] + results.by_type["quality"]
              + results.by_type["performance"] + results.by_type["error"]
       /\ spc \in {"returned", "exited"}
            => results.total_files
                 = Cardinality({k \in DOMAIN directory :
                                  directory[k].kind = "source"})
       /\ spc = "exited"
            => /\ exit_status \in {0, 1}
               /\ exit_status # 0 <=> results.by_severity["critical"] > 0

\* Two files scanned, one line each: two criticals in the first, a medium
\* and a high in the second; four issues, exit status 1.
C20_Witness ==
    /\ spc = "exited"
    /\ results.total_files = 2
    /\ results.total_issues = 4
    /\ results.by_severity["critical"] = 2
    /\ results.by_type["performance"] = 1
    /\ exit_status = 1

=============================================================================
